---- MODULE Spec2Model ----
(***************************************************************************)
(* Monte Carlo Value-at-Risk GUI (MCVaR_gui.py, MCVaR_Widgets.py).         *)
(*                                                                         *)
(* Dates are day numbers.  Day 0 is Monday 1999-12-27, so that             *)
(* weekday(d) = d % 7 is Python's datetime.weekday() (Monday = 0,          *)
(* Saturday = 5, Sunday = 6), QDateEdit's default date 2000-01-01 is day 5 *)
(* and the minimum historical start 2015-01-01 is day 5484.                *)
(*                                                                         *)
(* Five specifications share the module:                                   *)
(*   Spec        the two date-window widgets and their signal/slot chain   *)
(*   SpecCal     the business-day functions applied to drawn arguments     *)
(*   SpecRun     sequences of clicks on the run button                     *)
(*   SpecSim     one click on the run button (simulation and VaR)          *)
(*   SpecExport  clicks on the run and export buttons                      *)
(***************************************************************************)
EXTENDS Integers, Sequences, FiniteSets, TLC

VARIABLES
    \* ---- date-window widgets (Spec)
    now,          \* dt.datetime.now() read by HistWindowSelect.__init__
    hws,          \* HistWindowSelect: deStart, deEnd and their ranges
    pws,          \* PredWindowSelect: deStart, deEnd and deEnd's minimum
    end_signal,   \* argument of the last HistWindowSelect.end_signal emission
    raised,       \* exception raised inside the last handler, "none" if none
    lastEdit,     \* the last edit: the field, the date picked, the four dates before it
    \* ---- business-day functions (SpecCal)
    arg_date,     \* the date argument
    arg_n,        \* the day-count argument
    called,       \* the functions applied so far
    res_out,      \* getWeekdaysOut(arg_date, arg_n) of <<HistWindowSelect, PredWindowSelect>>
    res_back,     \* getWeekdaysBack(arg_date, arg_n)
    res_trip,     \* getWeekdaysBack(getWeekdaysOut(arg_date, arg_n), arg_n)
    res_days,     \* getNumDays() on the window (arg_date, getWeekdaysOut(arg_date, arg_n))
    res_snap,     \* the dates the three dateChanged handlers and the two getWeekdaysOut
                  \* heads compute from arg_date
    res_index     \* a window from arg_date on and the dates onClickExport labels it with
VARIABLES
    \* ---- MCVaRApp (SpecRun)
    app,          \* the attributes onClickRun stores on self
    has,          \* the names of the attributes that exist
    btnExport,    \* btnExport.isEnabled()
    status,       \* how the last onClickRun ended: "ok" or the exception
    runs,         \* number of clicks on the run button
    loc           \* locals of the last onClickRun: p0, mu, sig and the shocks e
VARIABLES
    \* ---- MCVaRApp.onClickExport (SpecExport)
    exportMessage, \* self.exportMessage, "" before the first export
    xlsx,          \* what MCVaR_Ouput.xlsx holds
    exportRaised   \* the exception the last onClickExport raised, "none" if none

calVars == <<arg_date, arg_n, called, res_out, res_back, res_trip, res_days, res_snap,
             res_index>>
guiVars == <<now, hws, pws, end_signal, raised, lastEdit>>
runVars == <<app, has, btnExport, status, runs, loc>>
exportVars == <<exportMessage, xlsx, exportRaised>>
vars == <<guiVars, calVars, runVars, exportVars>>

----------------------------------------------------------------------------
(* Bounds *)

\* SpecCal: dates drawn from CalFirst .. CalFirst + CalSpan, counts from 0 .. MaxN
CalSpan == 20
MaxN == 6
\* Spec: now is drawn from NowFirst .. NowFirst + NowSpan (NowFirst is Saturday
\* 2015-02-07); the user moves the
\* prediction end at most MaxPredSpan days past its minimum
NowSpan == 6
NowFirst == 5521
MaxPredSpan == 3
\* SpecSim: trial counts 0 .. MaxTrials, prediction windows of 0 .. MaxDays
\* business days; SpecRun: at most MaxRuns clicks on the run button
MaxTrials == 2
MaxDays == 2
MaxRuns == 2
\* how far around a prediction start the ends handed to getNumDays lie
MaxAround == 4

----------------------------------------------------------------------------
(* Python results that are not values *)

\* "return(curr_date)" with curr_date never assigned (range(days_out) empty)
UnboundLocalError == -1
\* a loop that never exits
NonTerminating == -2
\* "curr_date += timedelta(days = 1)" past datetime.max, 9999-12-31
OverflowError == -3

----------------------------------------------------------------------------
(* Dates *)

weekday(d) == d % 7

\* QDateEdit(): the default date 2000-01-01 and the default range
\* 1752-09-14 .. 9999-12-31
QDefaultDate == 5
QDateMin == -90318
QDateMax == 2921944
\* dt.datetime(2015,1,1)
MinStart == 5484
CalFirst == MinStart
\* Saturday 2024-01-06, 3292 days after 2015-01-01
Sat2024 == MinStart + 3292

\* ---- the weekend test of the three dateChanged handlers (if / elif)
\* a Saturday moved by one day only
Hws_snapStartSunday(deStart) ==
    IF weekday(deStart) = 5 THEN deStart + 1
    ELSE IF weekday(deStart) = 6 THEN deStart + 1
    ELSE deStart

Hws_snapStart(deStart) ==
    IF weekday(deStart) = 5 THEN deStart + 2
    ELSE IF weekday(deStart) = 6 THEN deStart + 1
    ELSE deStart

Hws_snapEnd(deEnd) ==
    IF weekday(deEnd) = 5 THEN deEnd + 2
    ELSE IF weekday(deEnd) = 6 THEN deEnd + 1
    ELSE deEnd

Pws_snapEnd(deEnd) ==
    IF weekday(deEnd) = 5 THEN deEnd + 2
    ELSE IF weekday(deEnd) = 6 THEN deEnd + 1
    ELSE deEnd

\* ---- HistWindowSelect.getWeekdaysOut
\* the two weekend tests at its head (if / if)
Hws_outSnap(start_date) ==
    LET s1 == IF weekday(start_date) = 5 THEN start_date + 2 ELSE start_date
    IN  IF weekday(s1) = 6 THEN s1 + 1 ELSE s1

RECURSIVE Hws_OutLoop(_, _)
Hws_OutLoop(curr_date, k) ==
    IF k = 0 THEN curr_date
    ELSE LET next_date == IF weekday(curr_date + 1) = 5
                          THEN curr_date + 3
                          ELSE curr_date + 1
         IN  Hws_OutLoop(next_date, k - 1)

Hws_getWeekdaysOut(start_date, days_out) ==
    IF days_out <= 0 THEN UnboundLocalError
    ELSE Hws_OutLoop(Hws_outSnap(start_date), days_out)

\* ---- HistWindowSelect.getWeekdaysBack
Hws_backSnap(start_date) ==
    LET s1 == IF weekday(start_date) = 5 THEN start_date - 1 ELSE start_date
    IN  IF weekday(s1) = 6 THEN s1 - 2 ELSE s1

RECURSIVE Hws_BackLoop(_, _)
Hws_BackLoop(curr_date, k) ==
    IF k = 0 THEN curr_date
    ELSE LET next_date == IF weekday(curr_date - 1) = 6
                          THEN curr_date - 3
                          ELSE curr_date - 1
         IN  Hws_BackLoop(next_date, k - 1)

Hws_getWeekdaysBack(start_date, days_back) ==
    IF days_back <= 0 THEN UnboundLocalError
    ELSE Hws_BackLoop(Hws_backSnap(start_date), days_back)

\* ---- PredWindowSelect.getWeekdaysOut
Pws_outSnap(start_date) ==
    LET s1 == IF weekday(start_date) = 5 THEN start_date + 2 ELSE start_date
    IN  IF weekday(s1) = 6 THEN s1 + 1 ELSE s1

RECURSIVE Pws_OutLoop(_, _)
Pws_OutLoop(curr_date, k) ==
    IF k = 0 THEN curr_date
    ELSE LET next_date == IF weekday(curr_date + 1) = 5
                          THEN curr_date + 3
                          ELSE curr_date + 1
         IN  Pws_OutLoop(next_date, k - 1)

Pws_getWeekdaysOut(start_date, days_out) ==
    IF days_out <= 0 THEN UnboundLocalError
    ELSE Pws_OutLoop(Pws_outSnap(start_date), days_out)

\* ---- PredWindowSelect.getNumDays, on the window (start_date, end_date)
\* curr_date only grows: once past end_date it never equals it, the loop
\* goes on to datetime.max and the next addition raises OverflowError
RECURSIVE NumDaysLoop(_, _, _)
NumDaysLoop(curr_date, end_date, days) ==
    IF curr_date = end_date THEN days
    ELSE IF curr_date > end_date THEN OverflowError
    ELSE LET c == curr_date + 1
         IN  IF weekday(c) = 5 \/ weekday(c) = 6
             THEN NumDaysLoop(c, end_date, days)
             ELSE NumDaysLoop(c, end_date, days + 1)

getNumDays(start_date, end_date) ==
    LET s1 == IF weekday(start_date) = 5 THEN start_date + 2 ELSE start_date
        s2 == IF weekday(s1) = 6 THEN s1 + 1 ELSE s1
    IN  NumDaysLoop(s2, end_date, 0)

----------------------------------------------------------------------------
(* The date widgets.  A QDateEdit keeps its date inside [minimum, maximum]: *)
(* setDate, setMinimumDateTime and the user's own edits all store          *)
(* bound(value), and emit dateChanged when the stored date changed.  The   *)
(* slots run synchronously inside the emission, so a handler and all the   *)
(* handlers it triggers are one step.  g is the state of both widgets:     *)
(*   g.hws, g.pws    the widgets                                           *)
(*   g.connected     end_signal is connected to PredWindowSelect.setStart  *)
(*   g.end_signal    argument of the last end_signal emission              *)
(*   g.raised        the exception raised, "none" if none                  *)

Bound(v, lo, hi) == IF v < lo THEN lo ELSE IF v > hi THEN hi ELSE v

RECURSIVE Pws_deEnd_setDate(_, _)
RECURSIVE Pws_onEndDateChange(_)

\* self.deEnd.setDate(d) of PredWindowSelect; dateChanged -> onEndDateChange
Pws_deEnd_setDate(g, d) ==
    LET v == Bound(d, g.pws.deEndMin, g.pws.deEndMax)
    IN  IF v = g.pws.deEnd THEN g
        ELSE Pws_onEndDateChange([g EXCEPT !.pws.deEnd = v])

Pws_onEndDateChange(g) ==
    Pws_deEnd_setDate(g, Pws_snapEnd(g.pws.deEnd))

\* self.deEnd.setMinimumDateTime(end_min) of PredWindowSelect
Pws_deEnd_setMinimumDateTime(g, m) ==
    LET g1 == [g EXCEPT !.pws.deEndMin = m,
                        !.pws.deEndMax = IF m > @ THEN m ELSE @]
    IN  Pws_deEnd_setDate(g1, g1.pws.deEnd)

Pws_setEndDateMinimum(g) ==
    LET end_min == Pws_getWeekdaysOut(g.pws.deStart, 5)
        g1 == Pws_deEnd_setMinimumDateTime(g, end_min)
    IN  IF g1.pws.deEnd < end_min
        THEN Pws_deEnd_setDate(g1, end_min)
        ELSE g1

\* deStart.dateChanged not connected to setEndDateMinimum
Pws_setStartUnconnected(g, date) ==
    LET v == Bound(date, QDateMin, QDateMax)
    IN  [g EXCEPT !.pws.deStart = v]

\* the slot of end_signal; deStart.dateChanged -> setEndDateMinimum
Pws_setStart(g, date) ==
    LET v == Bound(date, QDateMin, QDateMax)
    IN  IF v = g.pws.deStart THEN g
        ELSE Pws_setEndDateMinimum([g EXCEPT !.pws.deStart = v])

RECURSIVE Hws_deEnd_setDate(_, _)
RECURSIVE Hws_onEndDateChange(_)

\* self.deEnd.setDate(d) of HistWindowSelect; dateChanged -> onEndDateChange
Hws_deEnd_setDate(g, d) ==
    LET v == Bound(d, g.hws.deEndMin, g.hws.deEndMax)
    IN  IF v = g.hws.deEnd THEN g
        ELSE Hws_onEndDateChange([g EXCEPT !.hws.deEnd = v])

\* without the emission
Hws_onEndDateChangeMute(g) ==
    LET deEnd == Hws_snapEnd(g.hws.deEnd)
        g1 == Hws_deEnd_setDate(g, deEnd)
    IN  g1

\* emitting the widget's date instead of the snapped one
Hws_onEndDateChangeRaw(g) ==
    LET deEnd == Hws_snapEnd(g.hws.deEnd)
        g1 == Hws_deEnd_setDate(g, deEnd)
        g2 == [g1 EXCEPT !.end_signal = g1.hws.deEnd]
    IN  IF g2.connected THEN Pws_setStart(g2, g1.hws.deEnd) ELSE g2

Hws_onEndDateChange(g) ==
    LET deEnd == Hws_snapEnd(g.hws.deEnd)
        g1 == Hws_deEnd_setDate(g, deEnd)
        g2 == [g1 EXCEPT !.end_signal = deEnd]
    IN  IF g2.connected THEN Pws_setStart(g2, deEnd) ELSE g2

\* self.deEnd.setMinimumDateTime(end_min) of HistWindowSelect
Hws_deEnd_setMinimumDateTime(g, m) ==
    LET g1 == [g EXCEPT !.hws.deEndMin = m,
                        !.hws.deEndMax = IF m > @ THEN m ELSE @]
    IN  Hws_deEnd_setDate(g1, g1.hws.deEnd)

\* the end date set to the minimum whenever it differs from it
Hws_setEndDateMinimumAlways(g) ==
    LET end_min == Hws_getWeekdaysOut(g.hws.deStart, 22)
        g1 == Hws_deEnd_setMinimumDateTime(g, end_min)
    IN  IF g1.hws.deEnd # end_min
        THEN [Hws_deEnd_setDate(g1, end_min) EXCEPT !.raised = "AttributeError"]
        ELSE g1

\* 21 days out instead of 22
Hws_setEndDateMinimumShort(g) ==
    LET end_min == Hws_getWeekdaysOut(g.hws.deStart, 21)
        g1 == Hws_deEnd_setMinimumDateTime(g, end_min)
    IN  IF g1.hws.deEnd < end_min
        THEN [Hws_deEnd_setDate(g1, end_min) EXCEPT !.raised = "AttributeError"]
        ELSE g1

\* the branch ends in self.test_signal.emit(end_min): HistWindowSelect has no
\* attribute test_signal
Hws_setEndDateMinimum(g) ==
    LET end_min == Hws_getWeekdaysOut(g.hws.deStart, 22)
        g1 == Hws_deEnd_setMinimumDateTime(g, end_min)
    IN  IF g1.hws.deEnd < end_min
        THEN [Hws_deEnd_setDate(g1, end_min) EXCEPT !.raised = "AttributeError"]
        ELSE g1

RECURSIVE Hws_deStart_setDate(_, _)
RECURSIVE Hws_onStartDateChange(_)

\* self.deStart.setDate(d) of HistWindowSelect; dateChanged -> onStartDateChange
Hws_deStart_setDate(g, d) ==
    LET v == Bound(d, g.hws.deStartMin, g.hws.deStartMax)
    IN  IF v = g.hws.deStart THEN g
        ELSE Hws_onStartDateChange([g EXCEPT !.hws.deStart = v])

Hws_onStartDateChange(g) ==
    LET deStart == Hws_snapStart(g.hws.deStart)
        g1 == Hws_deStart_setDate(g, deStart)
    IN  IF g1.raised # "none" THEN g1 ELSE Hws_setEndDateMinimum(g1)

\* ---- construction
\* HistWindowSelect.__init__, with dt.datetime.now() = n
Hws_init(g, n) ==
    LET startMax == Hws_getWeekdaysBack(n, 22)
        w == [deStart    |-> Bound(QDefaultDate, MinStart, QDateMax),
              deStartMin |-> IF MinStart < startMax THEN MinStart ELSE startMax,
              deStartMax |-> startMax,
              deEnd      |-> Bound(QDefaultDate, QDateMin, n),
              deEndMin   |-> QDateMin,
              deEndMax   |-> n]
    IN  Hws_setEndDateMinimum(
            [g EXCEPT !.hws = [w EXCEPT !.deStart = Bound(@, w.deStartMin, w.deStartMax)]])

\* PredWindowSelect.__init__
Pws_init(g) ==
    LET w == [deStart  |-> QDefaultDate,
              deEnd    |-> QDefaultDate,
              deEndMin |-> QDateMin,
              deEndMax |-> QDateMax]
    IN  Pws_setEndDateMinimum([g EXCEPT !.pws = w])

\* MCVaRApp.initUI: both widgets, the connection, hws.onEndDateChange()
initUI(n) ==
    LET g0 == [hws |-> <<>>, pws |-> <<>>, connected |-> FALSE,
               end_signal |-> QDefaultDate, raised |-> "none"]
        g1 == Hws_init(g0, n)
        g2 == Pws_init(g1)
        g3 == [g2 EXCEPT !.connected = TRUE]
    IN  Hws_onEndDateChange(g3)

\* the widgets' state as one record
Gui == [hws |-> hws, pws |-> pws, connected |-> TRUE,
        end_signal |-> end_signal, raised |-> raised]

Store(g) ==
    /\ hws' = g.hws
    /\ pws' = g.pws
    /\ end_signal' = g.end_signal
    /\ raised' = g.raised

----------------------------------------------------------------------------
(* MCVaRApp.onClickRun.  Prices, drift and volatility are integers; the    *)
(* confidence level is a whole percentage and the stored VaR is in         *)
(* hundredths of a price unit, so that the interpolated percentile is      *)
(* exact.                                                                  *)

NoRun == [ticker |-> "", hstart |-> 0, hend |-> 0, trials |-> 0, var_con |-> 0,
          pstart |-> 0, pend |-> 0, days |-> 0, path_array |-> <<>>, var |-> 0]
NoLocals == [p0 |-> 0, mu |-> 0, sig |-> 0, e |-> <<>>]

\* one trial: path[1] = p0, path[j] = the GBM step from path[j-1]; e[j] is
\* the shock norm.ppf(np.random.rand()) of step j (the one of j = 1 is unused)
RECURSIVE simulatePath(_, _, _, _, _)
\* every step taken from the initial price instead of the previous one
simulatePathFromStart(p0, mu, sig, e, j) ==
    IF j = 1 THEN <<p0>>
    ELSE LET path == simulatePath(p0, mu, sig, e, j - 1)
             curr_price == path[1]
         IN  Append(path, curr_price + (mu * curr_price + sig * curr_price * e[j]))

simulatePath(p0, mu, sig, e, j) ==
    IF j = 1 THEN <<p0>>
    ELSE LET path == simulatePath(p0, mu, sig, e, j - 1)
             curr_price == path[j - 1]
         IN  Append(path, curr_price + (mu * curr_price + sig * curr_price * e[j]))

\* np.hstack(paths): paths[i] is a column of days + 1 prices
hstack(paths, days) ==
    [r \in 1 .. days + 1 |-> [i \in 1 .. Len(paths) |-> paths[i][r]]]

\* the k-th smallest entry of a row
OrderStat(row, k) ==
    CHOOSE v \in {row[i] : i \in 1 .. Len(row)} :
        /\ Cardinality({i \in 1 .. Len(row) : row[i] < v}) < k
        /\ Cardinality({i \in 1 .. Len(row) : row[i] <= v}) >= k

\* 100 * np.percentile(row, q), linear interpolation between order statistics
percentile(row, q) ==
    LET pos == (Len(row) - 1) * q
        lo == pos \div 100
        frac == pos % 100
        a == OrderStat(row, lo + 1)
        b == IF frac = 0 THEN a ELSE OrderStat(row, lo + 2)
    IN  100 * a + frac * (b - a)

\* np.max([p0 - np.percentile(t_returns, (1 - var_con) * 100), 0]), in hundredths
\* without the clamp at 0
VaRUnclamped(p0, t_returns, var_con) ==
    100 * p0 - percentile(t_returns, 100 - var_con)

VaR(p0, t_returns, var_con) ==
    LET loss == 100 * p0 - percentile(t_returns, 100 - var_con)
    IN  IF loss > 0 THEN loss ELSE 0

\* The click on the run button with
\*   tk, hw, pw     what the ticker and window widgets hold
\*   parses, t, c   whether int(leTrials) and float(leVaRCon) parse, and to what
\*   provides, d    whether web.DataReader answers, and the data's p0, mu, sig
\*   e              the shocks, e[i][j] for trial i and step j
onClickRun(tk, hw, pw, parses, t, c, provides, d, e) ==
    LET a1 == [app EXCEPT !.ticker = tk, !.hstart = hw[1], !.hend = hw[2]]
        h1 == has \cup {"ticker", "hstart", "hend"}
        a2 == [a1 EXCEPT !.trials = t, !.var_con = c, !.pstart = pw[1],
                         !.pend = pw[2], !.days = getNumDays(pw[1], pw[2])]
        h2 == h1 \cup {"trials", "var_con", "pstart", "pend", "days"}
        paths == [i \in 1 .. t |-> simulatePath(d.p0, d.mu, d.sig, e[i], a2.days + 1)]
        a3 == [a2 EXCEPT !.path_array = hstack(paths, a2.days)]
        h3 == h2 \cup {"path_array"}
        t_returns == a3.path_array[a2.days + 1]
        a4 == [a3 EXCEPT !.var = VaR(d.p0, t_returns, c)]
        h4 == h3 \cup {"var"}
    IN  /\ runs' = runs + 1
        /\ IF ~parses
           THEN \* int() or float() raises before trials and var_con are bound
                /\ app' = a1 /\ has' = h1 /\ status' = "ValueError"
                /\ UNCHANGED <<btnExport, loc>>
           ELSE IF ~provides
           THEN \* web.DataReader raises
                /\ app' = a2 /\ has' = h2 /\ status' = "RemoteDataError"
                /\ UNCHANGED <<btnExport, loc>>
           ELSE IF t <= 0
           THEN \* np.hstack([]) raises
                /\ app' = a2 /\ has' = h2 /\ status' = "ValueError"
                /\ loc' = [p0 |-> d.p0, mu |-> d.mu, sig |-> d.sig, e |-> e]
                /\ UNCHANGED btnExport
           ELSE IF 100 - c < 0 \/ 100 - c > 100
           THEN \* np.percentile raises: percentiles must be in [0, 100]
                /\ app' = a3 /\ has' = h3 /\ status' = "ValueError"
                /\ loc' = [p0 |-> d.p0, mu |-> d.mu, sig |-> d.sig, e |-> e]
                /\ UNCHANGED btnExport
           ELSE /\ app' = a4 /\ has' = h4 /\ status' = "ok"
                /\ loc' = [p0 |-> d.p0, mu |-> d.mu, sig |-> d.sig, e |-> e]
                /\ btnExport' = TRUE
        /\ UNCHANGED <<guiVars, calVars, exportVars>>

\* ---- MCVaRApp.onClickExport
\* the trial count up to which onClickExport writes the file
MaxExportTrials == 100
Exported == "Monte Carlo Results successfully exported to Excel!"
TooManyTrials == "Too many trials for export. Function supports a maximum of 100 trials."

\* list.remove(x): the list without the first entry equal to x
ListRemove(list, x) ==
    LET p == CHOOSE q \in 1 .. Len(list) :
                 /\ list[q] = x
                 /\ \A r \in 1 .. q - 1 : list[r] # x
    IN  SubSeq(list, 1, p - 1) \o SubSeq(list, p + 1, Len(list))

\* for date in index: if date.weekday() == i: index.remove(date)
\* the list iterator is at position k of the list as it is now, so the entry
\* that follows a removed one is stepped over
RECURSIVE RemoveWeekday(_, _, _)
RemoveWeekday(index, k, i) ==
    IF k > Len(index) THEN index
    ELSE IF weekday(index[k]) = i
         THEN RemoveWeekday(ListRemove(index, index[k]), k + 1, i)
         ELSE RemoveWeekday(index, k + 1, i)

\* without the removal loop for Sundays
exportIndexSaturdays(pstart, pend) ==
    LET index == [x \in 1 .. pend - pstart + 1 |-> pstart + (x - 1)]
    IN  RemoveWeekday(index, 1, 5)

\* the dates of the row labels: every day from pstart to pend, then one
\* removal loop for Saturdays and one for Sundays
exportIndex(pstart, pend) ==
    LET index == [x \in 1 .. pend - pstart + 1 |-> pstart + (x - 1)]
    IN  RemoveWeekday(RemoveWeekday(index, 1, 5), 1, 6)

\* The click on the export button.  pd.DataFrame raises ValueError when the
\* number of labels is not the number of rows of path_array.
onClickExport ==
    /\ IF "trials" \notin has
       THEN /\ exportRaised' = "AttributeError"
            /\ UNCHANGED <<exportMessage, xlsx>>
       ELSE IF app.trials <= MaxExportTrials
       THEN LET index == exportIndex(app.pstart, app.pend)
            IN  IF Len(index) # Len(app.path_array)
                THEN /\ exportRaised' = "ValueError"
                     /\ UNCHANGED <<exportMessage, xlsx>>
                ELSE /\ xlsx' = [index |-> index, path_array |-> app.path_array,
                                 var |-> app.var, written |-> TRUE]
                     /\ exportMessage' = Exported
                     /\ exportRaised' = "none"
       ELSE /\ exportMessage' = TooManyTrials
            /\ exportRaised' = "none"
            /\ UNCHANGED xlsx
    /\ UNCHANGED <<guiVars, calVars, runVars>>

----------------------------------------------------------------------------
(* Spec: the user edits the three enabled date fields *)

NoIndex == [pstart |-> 0, pend |-> 0, index |-> <<>>]

CalIdle ==
    /\ arg_date = CalFirst
    /\ arg_n = 0
    /\ called = {}
    /\ res_out = <<0, 0>>
    /\ res_back = 0
    /\ res_trip = 0
    /\ res_days = 0
    /\ res_snap = <<0, 0, 0, 0, 0>>
    /\ res_index = NoIndex

\* MCVaR_Ouput.xlsx not written
NoFile == [index |-> <<>>, path_array |-> <<>>, var |-> 0, written |-> FALSE]

\* the export button left enabled, as a new QPushButton is
RunIdleEnabled ==
    /\ app = NoRun
    /\ has = {}
    /\ btnExport = TRUE
    /\ status = "none"
    /\ runs = 0
    /\ loc = NoLocals
    /\ exportMessage = ""
    /\ xlsx = NoFile
    /\ exportRaised = "none"

\* MCVaRApp after __init__: nothing stored, export disabled
RunIdle ==
    /\ app = NoRun
    /\ has = {}
    /\ btnExport = FALSE
    /\ status = "none"
    /\ runs = 0
    /\ loc = NoLocals
    /\ exportMessage = ""
    /\ xlsx = NoFile
    /\ exportRaised = "none"

Init ==
    /\ now \in NowFirst .. NowFirst + NowSpan
    /\ LET g == initUI(now)
       IN  /\ hws = g.hws
           /\ pws = g.pws
           /\ end_signal = g.end_signal
           /\ raised = g.raised
    /\ lastEdit = [w |-> "init", d |-> QDefaultDate, hStart |-> QDefaultDate,
                   hEnd |-> QDefaultDate, pStart |-> QDefaultDate, pEnd |-> QDefaultDate]
    /\ CalIdle
    /\ RunIdle

\* the user picks date d in the historical start field
EditHistStart(d) ==
    /\ raised = "none"
    /\ d \in hws.deStartMin .. hws.deStartMax
    /\ d # hws.deStart
    /\ Store(Hws_deStart_setDate(Gui, d))
    /\ lastEdit' = [w |-> "hStart", d |-> d, hStart |-> hws.deStart,
                    hEnd |-> hws.deEnd, pStart |-> pws.deStart, pEnd |-> pws.deEnd]
    /\ UNCHANGED <<now, calVars, runVars, exportVars>>

\* the user picks date d in the historical end field
EditHistEnd(d) ==
    /\ raised = "none"
    /\ d \in hws.deEndMin .. hws.deEndMax
    /\ d # hws.deEnd
    /\ Store(Hws_deEnd_setDate(Gui, d))
    /\ lastEdit' = [w |-> "hEnd", d |-> d, hStart |-> hws.deStart,
                    hEnd |-> hws.deEnd, pStart |-> pws.deStart, pEnd |-> pws.deEnd]
    /\ UNCHANGED <<now, calVars, runVars, exportVars>>

\* the user picks date d in the prediction end field
EditPredEnd(d) ==
    /\ raised = "none"
    /\ d \in pws.deEndMin .. pws.deEndMin + MaxPredSpan
    /\ d # pws.deEnd
    /\ Store(Pws_deEnd_setDate(Gui, d))
    /\ lastEdit' = [w |-> "pEnd", d |-> d, hStart |-> hws.deStart,
                    hEnd |-> hws.deEnd, pStart |-> pws.deStart, pEnd |-> pws.deEnd]
    /\ UNCHANGED <<now, calVars, runVars, exportVars>>

Next ==
    \/ \E d \in MinStart .. NowFirst + NowSpan : EditHistStart(d)
    \/ \E d \in MinStart .. NowFirst + NowSpan : EditHistEnd(d)
    \/ \E d \in MinStart .. NowFirst + NowSpan + 9 + MaxPredSpan : EditPredEnd(d)

Spec == Init /\ [][Next]_vars

----------------------------------------------------------------------------
(* SpecCal: the business-day functions applied to a drawn date and count *)

CalDates == (CalFirst .. CalFirst + CalSpan) \cup {Sat2024}

InitCal ==
    /\ now = NowFirst
    /\ LET g == initUI(now)
       IN  /\ hws = g.hws
           /\ pws = g.pws
           /\ end_signal = g.end_signal
           /\ raised = g.raised
    /\ lastEdit = [w |-> "init", d |-> QDefaultDate, hStart |-> QDefaultDate,
                   hEnd |-> QDefaultDate, pStart |-> QDefaultDate, pEnd |-> QDefaultDate]
    /\ arg_date \in CalDates
    /\ arg_n \in 0 .. MaxN
    /\ called = {}
    /\ res_out = <<0, 0>>
    /\ res_back = 0
    /\ res_trip = 0
    /\ res_days = 0
    /\ res_snap = <<0, 0, 0, 0, 0>>
    /\ res_index = NoIndex
    /\ RunIdle

\* the weekend snaps of the handlers and of the getWeekdaysOut heads
CallSnap ==
    /\ "snap" \notin called
    /\ res_snap' = <<Hws_snapStart(arg_date), Hws_snapEnd(arg_date),
                     Pws_snapEnd(arg_date), Hws_outSnap(arg_date),
                     Pws_outSnap(arg_date)>>
    /\ called' = called \cup {"snap"}
    /\ UNCHANGED <<guiVars, runVars, exportVars, res_index, arg_date, arg_n,
                 res_out, res_back, res_trip, res_days>>

CallGetWeekdaysOut ==
    /\ "out" \notin called
    /\ res_out' = <<Hws_getWeekdaysOut(arg_date, arg_n),
                    Pws_getWeekdaysOut(arg_date, arg_n)>>
    /\ called' = called \cup {"out"}
    /\ UNCHANGED <<guiVars, runVars, exportVars, res_index, arg_date, arg_n,
                 res_back, res_trip, res_days, res_snap>>

CallGetWeekdaysBack ==
    /\ "back" \notin called
    /\ res_back' = Hws_getWeekdaysBack(arg_date, arg_n)
    /\ called' = called \cup {"back"}
    /\ UNCHANGED <<guiVars, runVars, exportVars, res_index, arg_date, arg_n,
                 res_out, res_trip, res_days, res_snap>>

\* getWeekdaysBack(getWeekdaysOut(arg_date, arg_n), arg_n); an exception of
\* the inner call propagates
CallRoundTrip ==
    /\ "trip" \notin called
    /\ res_trip' = LET out == Hws_getWeekdaysOut(arg_date, arg_n)
                   IN  IF out = UnboundLocalError THEN UnboundLocalError
                       ELSE Hws_getWeekdaysBack(out, arg_n)
    /\ called' = called \cup {"trip"}
    /\ UNCHANGED <<guiVars, runVars, exportVars, res_index, arg_date, arg_n,
                 res_out, res_back, res_days, res_snap>>

\* getNumDays() on the window (arg_date, getWeekdaysOut(arg_date, arg_n))
CallGetNumDays ==
    /\ "days" \notin called
    /\ res_days' = LET end == Pws_getWeekdaysOut(arg_date, arg_n)
                   IN  IF end = UnboundLocalError THEN UnboundLocalError
                       ELSE getNumDays(arg_date, end)
    /\ called' = called \cup {"days"}
    /\ UNCHANGED <<guiVars, runVars, exportVars, res_index, arg_date, arg_n,
                 res_out, res_back, res_trip, res_snap>>

\* the dates onClickExport labels the rows with, for a window that starts
\* at arg_date and ends up to 2 * MaxN days later
CallExportIndex ==
    /\ "index" \notin called
    /\ \E pend \in arg_date .. arg_date + 2 * MaxN :
           res_index' = [pstart |-> arg_date, pend |-> pend,
                         index |-> exportIndex(arg_date, pend)]
    /\ called' = called \cup {"index"}
    /\ UNCHANGED <<guiVars, runVars, exportVars, arg_date, arg_n,
                   res_out, res_back, res_trip, res_days, res_snap>>

NextCal ==
    \/ CallExportIndex
    \/ CallSnap
    \/ CallGetWeekdaysOut
    \/ CallGetWeekdaysBack
    \/ CallRoundTrip
    \/ CallGetNumDays

SpecCal == InitCal /\ [][NextCal]_vars

----------------------------------------------------------------------------
(* SpecRun: sequences of clicks on the run button *)

\* ---- what the widgets and the provider can hand to a run
Tickers == {"AAPL", "MSFT"}
ConLevels == {50, 95, 100, 150}
Shocks == {-1, 1}
Data == {[p0 |-> 100, mu |-> 0, sig |-> 1], [p0 |-> 100, mu |-> 1, sig |-> 1]}

\* the shocks one run draws: none unless the simulation loop is reached
ShockTables(reached, t, days) ==
    IF reached THEN [1 .. t -> [2 .. days + 1 -> Shocks]] ELSE {<<>>}

\* the state of a started application before the first click
InitRun ==
    /\ now = NowFirst
    /\ LET g == initUI(now)
       IN  /\ hws = g.hws
           /\ pws = g.pws
           /\ end_signal = g.end_signal
           /\ raised = g.raised
    /\ lastEdit = [w |-> "init", d |-> QDefaultDate, hStart |-> QDefaultDate,
                   hEnd |-> QDefaultDate, pStart |-> QDefaultDate, pEnd |-> QDefaultDate]
    /\ CalIdle
    /\ RunIdle

\* A click on the run button with the windows the widgets hold after
\* construction (five business days ahead) and 0 or 1 trials
ClickRun ==
    /\ runs < MaxRuns
    /\ \E tk \in Tickers, parses \in BOOLEAN, t \in 0 .. 1, c \in {95, 150},
          provides \in BOOLEAN :
        LET hw == <<hws.deStart, hws.deEnd>>
            pw == <<pws.deStart, pws.deEnd>>
            d == [p0 |-> 100, mu |-> 0, sig |-> 1]
        IN  \E e \in ShockTables(parses /\ provides, t, getNumDays(pw[1], pw[2])) :
                onClickRun(tk, hw, pw, parses, t, c, provides, d, e)

NextRun == ClickRun

SpecRun == InitRun /\ [][NextRun]_vars

----------------------------------------------------------------------------
(* SpecExport: clicks on the run and export buttons, with trial counts on  *)
(* both sides of the export limit; every trial of a run draws the same     *)
(* shock at every step                                                     *)

ExportTrials == {0, 1, MaxExportTrials - 1, MaxExportTrials, MaxExportTrials + 1}

SameShockTables(reached, t, days) ==
    IF reached THEN {[i \in 1 .. t |-> [j \in 2 .. days + 1 |-> s]] : s \in Shocks}
    ELSE {<<>>}

ClickRunTrials ==
    /\ runs < MaxRuns
    /\ \E parses \in BOOLEAN, t \in ExportTrials, c \in {95, 150}, provides \in BOOLEAN :
        LET hw == <<hws.deStart, hws.deEnd>>
            pw == <<pws.deStart, pws.deEnd>>
            d == [p0 |-> 100, mu |-> 0, sig |-> 1]
        IN  \E e \in SameShockTables(parses /\ provides, t, getNumDays(pw[1], pw[2])) :
                onClickRun("AAPL", hw, pw, parses, t, c, provides, d, e)

\* the export button can be clicked when it is enabled
ClickExport ==
    /\ btnExport
    /\ onClickExport

NextExport ==
    \/ ClickRunTrials
    \/ ClickExport

SpecExport == InitRun /\ [][NextExport]_vars

----------------------------------------------------------------------------
(* SpecSim: the first click on the run button, as a function of what the   *)
(* widgets, the provider and the random generator hand to it: prediction   *)
(* windows of 0 .. MaxDays business days, 0 .. MaxTrials trials            *)

SimPredStart == pws.deStart
SimPredWindows ==
    {<<SimPredStart, pend>> : pend \in
        {x \in SimPredStart .. SimPredStart + MaxDays + 2 :
            /\ weekday(x) \notin {5, 6}
            /\ getNumDays(SimPredStart, x) <= MaxDays}}

ClickRunOnce ==
    /\ runs = 0
    /\ \E pw \in SimPredWindows, parses \in BOOLEAN, t \in 0 .. MaxTrials,
          c \in ConLevels, provides \in BOOLEAN, d \in Data :
        \E e \in ShockTables(parses /\ provides, t, getNumDays(pw[1], pw[2])) :
            onClickRun("AAPL", <<hws.deStart, hws.deEnd>>, pw, parses, t, c,
                       provides, d, e)

NextSim == ClickRunOnce

SpecSim == InitRun /\ [][NextSim]_vars

----------------------------------------------------------------------------
(* Reference notions the claims are stated with *)

IsBusinessDay(d) == weekday(d) \notin {5, 6}

\* the first business day on or after d
FirstBusinessDayFrom(d) ==
    CHOOSE m \in d .. d + 2 :
        IsBusinessDay(m) /\ \A k \in d .. m - 1 : ~IsBusinessDay(k)

\* the number of business days after a, up to and including b
BusinessDaysIn(a, b) == Cardinality({k \in a + 1 .. b : IsBusinessDay(k)})

----------------------------------------------------------------------------
(* Claims *)

\* C1: after construction and after any sequence of edits the historical end
\* is at least getWeekdaysOut(historical start, 22) and the prediction end at
\* least getWeekdaysOut(prediction start, 5): the windows hold at least 22
\* and 5 business days.
C1_MinWindows ==
    /\ hws.deEnd >= Hws_getWeekdaysOut(hws.deStart, 22)
    /\ BusinessDaysIn(hws.deStart, hws.deEnd) >= 22
    /\ pws.deEnd >= Pws_getWeekdaysOut(pws.deStart, 5)
    /\ BusinessDaysIn(pws.deStart, pws.deEnd) >= 5

\* an edit of the historical start that pushed the historical end, and with
\* it the prediction window, up to the new minimum
C1_Witness ==
    /\ lastEdit.w = "hStart"
    /\ lastEdit.hEnd < hws.deEnd
    /\ hws.deEnd = Hws_getWeekdaysOut(hws.deStart, 22)
    /\ lastEdit.pEnd < pws.deEnd
    /\ pws.deEnd = Pws_getWeekdaysOut(pws.deStart, 5)

\* C2: the prediction start is the historical end snapped forward to a
\* business day (Saturday, Sunday -> the following Monday).
C2_PredStart ==
    pws.deStart = FirstBusinessDayFrom(hws.deEnd)

\* the user picked a Saturday as historical end; the prediction start is the
\* Monday after it
C2_Witness ==
    /\ lastEdit.w = "hEnd"
    /\ weekday(lastEdit.d) = 5
    /\ pws.deStart = lastEdit.d + 2

\* C10: when the historical start changed (or at construction) and the
\* historical end was below getWeekdaysOut(start, 22), the end is exactly that
\* floor, end_signal carried it to the prediction start, and no exception was
\* raised.
C10_EndRaised ==
    (/\ lastEdit.w \in {"init", "hStart"}
     /\ lastEdit.hEnd < Hws_getWeekdaysOut(hws.deStart, 22))
    => (/\ hws.deEnd = Hws_getWeekdaysOut(hws.deStart, 22)
        /\ end_signal = hws.deEnd
        /\ pws.deStart = hws.deEnd
        /\ raised = "none")

\* the user moved the historical start so far that the end had to follow
C10_Witness ==
    /\ lastEdit.w = "hStart"
    /\ lastEdit.hEnd < Hws_getWeekdaysOut(hws.deStart, 22)
    /\ hws.deEnd = Hws_getWeekdaysOut(hws.deStart, 22)
    /\ pws.deStart = hws.deEnd
    /\ end_signal = hws.deEnd

\* C4: getWeekdaysBack(getWeekdaysOut(d, n), n) is d snapped forward to a
\* business day, for every d and every n >= 0.
C4_RoundTrip ==
    "trip" \in called => res_trip = FirstBusinessDayFrom(arg_date)

\* C5: getNumDays on the window (start, getWeekdaysOut(start, n)) is n, for
\* every start and every n >= 0.
C5_CountOfAdvance ==
    "days" \in called => res_days = arg_n

\* C6: getWeekdaysOut(d, 0) and getWeekdaysBack(d, 0) return the snapped d
\* (forward for getWeekdaysOut, backward for getWeekdaysBack), without error.
C6_ZeroDays ==
    /\ ("out" \in called /\ arg_n = 0) =>
           /\ res_out[1] = FirstBusinessDayFrom(arg_date)
           /\ res_out[2] = FirstBusinessDayFrom(arg_date)
    /\ ("back" \in called /\ arg_n = 0) =>
           /\ res_back # UnboundLocalError
           /\ IsBusinessDay(res_back)
           /\ res_back \in arg_date - 2 .. arg_date

\* C7: the snap of the dateChanged handlers and of getWeekdaysOut maps a
\* Saturday or Sunday to the following Monday and a weekday to itself.
C7_NextBusinessDay ==
    "snap" \in called =>
        \A i \in 1 .. 5 :
            /\ res_snap[i] = FirstBusinessDayFrom(arg_date)
            /\ weekday(arg_date) \in {5, 6} =>
                   weekday(res_snap[i]) = 0 /\ res_snap[i] \in arg_date + 1 .. arg_date + 2
            /\ weekday(arg_date) \notin {5, 6} => res_snap[i] = arg_date

\* Saturday 2024-01-06 snapped to Monday 2024-01-08
C7_Witness ==
    /\ "snap" \in called
    /\ arg_date = Sat2024
    /\ res_snap = <<Sat2024 + 2, Sat2024 + 2, Sat2024 + 2, Sat2024 + 2, Sat2024 + 2>>

\* C3: a run that fails changes none of the stored run outputs (ticker, the
\* two windows, trial count, horizon days, path ensemble, VaR).
C3_NoPartialResults ==
    [][(runs' # runs /\ status' # "ok") =>
           /\ has' = has
           /\ app'.ticker = app.ticker
           /\ app'.hstart = app.hstart /\ app'.hend = app.hend
           /\ app'.pstart = app.pstart /\ app'.pend = app.pend
           /\ app'.trials = app.trials
           /\ app'.days = app.days
           /\ app'.path_array = app.path_array
           /\ app'.var = app.var]_vars

\* C8: the VaR a run stores is max(initialPrice - percentile of the terminal
\* row, 0), hence never negative (in hundredths).
C8_VaRNonNegative ==
    "var" \in has =>
        /\ app.var >= 0
        /\ status = "ok" =>
               LET loss == 100 * loc.p0
                           - percentile(app.path_array[app.days + 1], 100 - app.var_con)
               IN  /\ app.var >= loss
                   /\ app.var \in {loss, 0}

\* a completed run whose percentile lies above the initial price: the
\* difference is negative and the stored VaR is 0
C8_Witness ==
    /\ status = "ok"
    /\ 100 * loc.p0 < percentile(app.path_array[app.days + 1], 100 - app.var_con)
    /\ app.var = 0

\* C9: the path ensemble of a completed run has days + 1 rows and trials
\* columns, row 0 is the initial price in every column, and each later entry
\* is the GBM step from the entry above it in the same column.
C9_PathEnsemble ==
    status = "ok" =>
        /\ app.trials >= 1 /\ app.days >= 0
        /\ Len(app.path_array) = app.days + 1
        /\ \A r \in 1 .. app.days + 1 :
               /\ Len(app.path_array[r]) = app.trials
               /\ \A i \in 1 .. app.trials :
                      IF r = 1
                      THEN app.path_array[r][i] = loc.p0
                      ELSE LET prev == app.path_array[r - 1][i]
                           IN  app.path_array[r][i] =
                                   prev + loc.mu * prev + loc.sig * prev * loc.e[i][r]

\* a completed run of two trials over two days whose columns part on the
\* first day and move again on the second
C9_Witness ==
    /\ status = "ok"
    /\ app.trials = 2
    /\ app.days = 2
    /\ app.path_array[1] = <<loc.p0, loc.p0>>
    /\ app.path_array[2][1] # app.path_array[2][2]
    /\ app.path_array[3][2] # app.path_array[2][2]

\* C11: enforcing a minimum leaves alone an end date that satisfies it: when
\* the historical start changed and the historical end was already at or
\* above getWeekdaysOut(start, 22), the historical end, the prediction start
\* and the prediction end are what they were; when the prediction start
\* changed and the prediction end was already at or above
\* getWeekdaysOut(prediction start, 5), the prediction end is what it was.
C11_NoOverride ==
    /\ (/\ lastEdit.w = "hStart"
        /\ hws.deStart # lastEdit.hStart
        /\ lastEdit.hEnd >= Hws_getWeekdaysOut(hws.deStart, 22))
       => (/\ hws.deEnd = lastEdit.hEnd
           /\ pws.deStart = lastEdit.pStart
           /\ pws.deEnd = lastEdit.pEnd)
    /\ (/\ lastEdit.w \in {"hStart", "hEnd"}
        /\ pws.deStart # lastEdit.pStart
        /\ lastEdit.pEnd >= Pws_getWeekdaysOut(pws.deStart, 5))
       => pws.deEnd = lastEdit.pEnd

\* the user moved the historical start forward, the historical end was
\* still far enough out and kept its date
C11_Witness ==
    /\ lastEdit.w = "hStart"
    /\ hws.deStart > lastEdit.hStart
    /\ lastEdit.hEnd > Hws_getWeekdaysOut(hws.deStart, 22)
    /\ hws.deEnd = lastEdit.hEnd
    /\ pws.deStart = lastEdit.pStart
    /\ pws.deEnd = lastEdit.pEnd

\* C12: onClickExport writes the Excel export only if the trial count of the
\* stored run is less than 100; otherwise it writes nothing and reports the
\* 'Too many trials for export' message.
C12_ExportBelow100 ==
    [][ClickExport =>
        IF app.trials < 100
        THEN xlsx'.written /\ xlsx'.path_array = app.path_array /\ exportMessage' = Exported
        ELSE xlsx' = xlsx /\ exportMessage' = TooManyTrials]_vars

\* C13: the export button is disabled from start-up until a run has stored
\* both the path ensemble and the VaR, so that onClickExport has never
\* executed, and cannot execute, while either of them is missing.
C13_ExportAfterRun ==
    (btnExport \/ xlsx.written \/ exportMessage # "" \/ exportRaised # "none")
        => {"path_array", "var"} \subseteq has

\* an export was written, after a run that completed
C13_Witness ==
    /\ btnExport
    /\ xlsx.written
    /\ exportMessage = Exported
    /\ {"path_array", "var"} \subseteq has

\* C14 as stated: in every state reachable through the GUI the prediction end
\* is on or after the forward-snapped prediction start and getNumDays returns
\* the number of business days after the snapped start up to and including
\* the end (0 when they are equal); for an end before the snapped start its
\* loop does not terminate.
C14_NeverEnds ==
    /\ pws.deEnd >= FirstBusinessDayFrom(pws.deStart)
    /\ getNumDays(pws.deStart, pws.deEnd)
           = BusinessDaysIn(FirstBusinessDayFrom(pws.deStart), pws.deEnd)
    /\ \A start \in pws.deStart .. pws.deStart + 6 :
       \A end \in start - MaxAround .. start + MaxAround :
           getNumDays(start, end)
               = IF end < FirstBusinessDayFrom(start) THEN NonTerminating
                 ELSE BusinessDaysIn(FirstBusinessDayFrom(start), end)

\* C14: in every state reachable through the GUI the prediction end is on or
\* after the forward-snapped prediction start and getNumDays returns the
\* number of business days after the snapped start up to and including the
\* end (0 when they are equal); for an end before the snapped start it returns
\* nothing: the loop runs on to datetime.max and raises OverflowError.
C14_GetNumDays ==
    /\ pws.deEnd >= FirstBusinessDayFrom(pws.deStart)
    /\ getNumDays(pws.deStart, pws.deEnd)
           = BusinessDaysIn(FirstBusinessDayFrom(pws.deStart), pws.deEnd)
    /\ \A start \in pws.deStart .. pws.deStart + 6 :
       \A end \in start - MaxAround .. start + MaxAround :
           getNumDays(start, end)
               = IF end < FirstBusinessDayFrom(start) THEN OverflowError
                 ELSE BusinessDaysIn(FirstBusinessDayFrom(start), end)

\* the user moved the prediction end out, and the historical end, hence the
\* prediction start, after that: getNumDays counts more than the minimum
C14_Witness ==
    /\ lastEdit.w = "hEnd"
    /\ pws.deStart > lastEdit.pStart
    /\ pws.deEnd = lastEdit.pEnd
    /\ getNumDays(pws.deStart, pws.deEnd) > 5

\* C15: for every prediction window whose start and end are business days
\* with start <= end, the dates onClickExport labels the rows with hold no
\* Saturday and no Sunday and are getNumDays() + 1 in number, one per row of
\* the path ensemble of a run made with that window.
C15_IndexRows ==
    (/\ "index" \in called
     /\ IsBusinessDay(res_index.pstart)
     /\ IsBusinessDay(res_index.pend))
    => /\ \A k \in 1 .. Len(res_index.index) : IsBusinessDay(res_index.index[k])
       /\ Len(res_index.index) = getNumDays(res_index.pstart, res_index.pend) + 1

\* a window from a Friday to the Monday ten days later: both weekends are
\* gone from the labels
C15_Witness ==
    /\ "index" \in called
    /\ weekday(res_index.pstart) = 4
    /\ res_index.pend = res_index.pstart + 10
    /\ Len(res_index.index) = 7

====
